---- MODULE Spec2Model ----
(***************************************************************************)
(* Model of the page script of linusboyle/sandbox-tools:                   *)
(* src/static/app.js and src/unnamed/part_000, an earlier revision of the  *)
(* same script, line for line the same up to line 77 except that it does   *)
(* not sort the table list (line 59); it has no fetchTableEntries.  A run  *)
(* of the model is a page running one of the two.                          *)
(*                                                                         *)
(* The script installs event handlers that each issue one fetch and write  *)
(* the answer into the DOM.  The state is the DOM the handlers read and    *)
(* write, and the set of fetches that are in flight.  One step of the      *)
(* model is one event-loop task: a user event running its handler, or the  *)
(* settlement of one fetch running its whole promise chain                 *)
(* (.then(json) .then(callback) .catch(callback)).                         *)
(*                                                                         *)
(* Texts are sequences of string pieces, so that a template literal is a   *)
(* concatenation and two texts are equal iff their pieces are.  The page   *)
(* markup is not part of the sources; every element the script looks up    *)
(* by id is taken to exist as a node of its own.                           *)
(***************************************************************************)
EXTENDS Integers, Sequences, FiniteSets, TLC

\* ------------------------------------------------------------------ bounds
MaxTriggers == 2     \* user events that start a fetch, per run

\* ------------------------------------------------------ JavaScript values
Undefined == [t |-> "undefined"]
JNull == [t |-> "null"]
JNum(n) == [t |-> "number", n |-> n]
JStr(s) == [t |-> "string", s |-> s]
JArr(e) == [t |-> "array", e |-> e]

Digit == <<"0", "1", "2", "3", "4", "5", "6", "7", "8", "9">>

RECURSIVE NumToText(_)
\* Number.prototype.toString for a non-negative integer.
NumToText(n) ==
    IF n < 10 THEN <<Digit[n + 1]>>
    ELSE NumToText(n \div 10) \o <<Digit[(n % 10) + 1]>>

\* ToString as a template literal, innerText and textContent apply it.
ToStringJS(v) ==
    CASE v.t = "number" -> NumToText(v.n)
      [] v.t = "string" -> v.s
      [] v.t = "undefined" -> <<"undefined">>
      [] v.t = "null" -> <<"null">>
      [] OTHER -> <<"[object Object]">>

\* UTF-16 code units of the characters table names are written with.
CodeUnit(c) == CASE c = "a" -> 97 [] c = "b" -> 98 [] OTHER -> 0

RECURSIVE StrLess(_, _)
\* x < y as Array.prototype.sort compares strings without a comparator.
StrLess(x, y) ==
    IF y = <<>> THEN FALSE
    ELSE IF x = <<>> THEN TRUE
    ELSE IF CodeUnit(Head(x)) # CodeUnit(Head(y))
         THEN CodeUnit(Head(x)) < CodeUnit(Head(y))
    ELSE StrLess(Tail(x), Tail(y))

RECURSIVE InsertSorted(_, _)
InsertSorted(x, s) ==
    IF s = <<>> THEN <<x>>
    ELSE IF StrLess(x, Head(s)) THEN <<x>> \o s
    ELSE <<Head(s)>> \o InsertSorted(x, Tail(s))

RECURSIVE SortStrings(_)
\* data.tables.sort(): ascending, stable.
SortStrings(s) ==
    IF s = <<>> THEN <<>>
    ELSE InsertSorted(s[Len(s)], SortStrings(SubSeq(s, 1, Len(s) - 1)))

\* ------------------------------------------------------------ input sets
EmptyText == <<>>
Names == {<<"b">>, <<"a", "b">>}
ResultValues == {JNum(12)}
MessageValues == {JStr(<<"Table added">>)}
TargetValues == {JStr(<<"orc">>)}
TableTexts == {<<"[", "1", "]">>, <<"[", "\"">>}

\* The lists of distinct elements of S, in every order: table names are
\* unique on the server, and so are the roll ranges of a table.
DistinctSeqs(S) ==
    {l \in UNION {[1..k -> S] : k \in 0..Cardinality(S)} :
       \A i, j \in 1..Len(l) : i # j => l[i] # l[j]}

\* A roll range min_roll..max_roll with its target: a single roll, and a
\* range whose bounds have one digit and two.
RollRanges == {<<3, 3>>, <<2, 15>>}
Entries ==
    {[min_roll |-> r[1], max_roll |-> r[2], target |-> t] :
       r \in RollRanges, t \in TargetValues}

\* JSON.stringify of a string: quoted, with the quote character escaped.
RECURSIVE EscapeChars(_)
EscapeChars(s) ==
    IF s = <<>> THEN <<>>
    ELSE (IF Head(s) = "\"" THEN <<"\\", "\"">> ELSE <<Head(s)>>)
         \o EscapeChars(Tail(s))

RECURSIVE JSONStringify(_)
JSONStringify(v) ==
    CASE v.t = "number" -> NumToText(v.n)
      [] v.t = "string" -> <<"\"">> \o EscapeChars(v.s) \o <<"\"">>
      [] v.t = "array" ->
           <<"[">> \o (IF v.e = <<>> THEN <<>> ELSE JSONStringify(v.e[1]))
                   \o <<"]">>
      [] v.t = "table-object" ->
           <<"{", "\"", "table", "\"", ":">> \o JSONStringify(v.table) \o <<"}">>
      [] OTHER -> <<"null">>

\* The object literal { table: x } of addTable.
TableObject(x) == [t |-> "table-object", table |-> x]

\* --------------------------------------------------------------- requests
NoBody == <<>>

\* The path of the other draw endpoint, pasted into drawFromTable.
DrawPathPasted(tableName) == <<"/formatted_draw/">> \o tableName

\* `/draw/${tableName}`
DrawPath(tableName) == <<"/draw/">> \o tableName

\* `/formatted_draw/${tableName}`
FormattedDrawPath(tableName) == <<"/formatted_draw/">> \o tableName

\* `/table_entries/${tableName}`
TableEntriesPath(tableName) == <<"/table_entries/">> \o tableName

TablesPath == <<"/tables">>

AddTablePath == <<"/addTable">>

\* body: JSON.stringify({ table: tableData }), tableData the raw field text.
AddTableBody(tableData) == JSONStringify(TableObject(JStr(tableData)))

\* The argument of fetch; kind names the promise chain hanging on it.
Request(id, kind, method, path, body) ==
    [id |-> id, kind |-> kind, method |-> method, path |-> path, body |-> body]

\* -------------------------------------------------------------- responses
NetworkError == [t |-> "neterr"]
NotJson == [t |-> "notjson"]
JsonBody(d) == [t |-> "json", data |-> d]

DrawData == {[t |-> "object", result |-> v] : v \in ResultValues}
AddTableData == {[t |-> "object", message |-> m] : m \in MessageValues}
TablesData ==
    {[t |-> "object", tables |-> JArr(l)] : l \in DistinctSeqs(Names)}
EntriesData ==
    {[t |-> "object", entries |-> JArr(l)] : l \in DistinctSeqs(Entries)}

DataOf(kind) ==
    CASE kind = "draw" -> DrawData
      [] kind = "formatted_draw" -> DrawData
      [] kind = "addTable" -> AddTableData
      [] kind = "tables" -> TablesData
      [] OTHER -> EntriesData

\* The JSON object an error answer carries: none of the expected properties.
ErrorData(kind) ==
    CASE kind = "draw" -> [t |-> "object", result |-> Undefined]
      [] kind = "formatted_draw" -> [t |-> "object", result |-> Undefined]
      [] kind = "addTable" -> [t |-> "object", message |-> Undefined]
      [] kind = "tables" -> [t |-> "object", tables |-> Undefined]
      [] OTHER -> [t |-> "object", entries |-> Undefined]

\* What the server, or the network, may answer a request of a kind with: no
\* answer at all, an answer with a success status and a JSON body, or one
\* with an error status and an error page or an error object.
Responses(kind) ==
    {NetworkError}
      \cup {[t |-> "http", ok |-> TRUE, body |-> b] :
              b \in {JsonBody(JNull)} \cup {JsonBody(d) : d \in DataOf(kind)}}
      \cup {[t |-> "http", ok |-> FALSE, body |-> b] :
              b \in {NotJson, JsonBody(ErrorData(kind))}}

\* fetch(...).then(response => response.json()) rejects: fetch rejects on a
\* network error only, response.json() on a body that is not JSON.  The
\* status of the response is never looked at.
ChainRejected(resp) ==
    IF resp.t = "neterr" THEN TRUE ELSE resp.body.t = "notjson"

\* Reading a property of data throws a TypeError when data is null.
PropertyReadThrows(resp) == resp.body.data.t = "null"


\* ------------------------------------------------- what the callbacks write
ErrorFetchingData == <<"Error fetching data">>
ErrorAddingTable == <<"Error adding table">>
InvalidFormat == <<"Invalid format">>

\* element.innerText += text
SetInnerTextAppending(current, text) == current \o text

\* element.innerText = text
SetInnerText(current, text) == text

\* `Result: ${data.result}`
DrawThenText(data) == <<"Result: ">> \o ToStringJS(data.result)

\* `Formatted Result: ${data.result}`
FormattedDrawThenText(data) == <<"Formatted Result: ">> \o ToStringJS(data.result)

\* innerText = data.message
AddTableThenText(data) == ToStringJS(data.message)

\* populateTableDropdown() called after the chain, whichever way it ends.
AddTableRefreshesAlways(branch) == TRUE

\* populateTableDropdown() is the last statement of the then-callback of
\* addTable and of no other callback.
AddTableRefreshes(branch) == branch = "then"

\* The try block of addTable holds JSON.stringify of an object with one
\* string property and a call of fetch; neither throws, whatever the text.
AddTableTryThrows(tableData) == FALSE

\* data.tables.sort() in app.js, data.tables as received in part_000.
TablesOrder(rev, l) == IF rev = "app.js" THEN SortStrings(l) ELSE l

\* The options appended without emptying the dropdown first.
RebuildOptionsUncleared(old, tables) == old \o tables

\* dropdown.innerHTML = '' and then one appended option per table.
RebuildOptions(old, tables) == tables

\* The dropdown's value once its options were replaced: '' when there is
\* none, otherwise the first one, which a drop-down box selects.
ValueAfterRebuild(options) ==
    IF options = <<>> THEN EmptyText ELSE options[1]

\* A catch-callback that reports on the result element as the draws do.
TablesCatchWritesResult == {"result"}

\* The elements the catch-callback of populateTableDropdown writes: it only
\* logs to the console.
TablesCatchWrites == {}

\* The range text without the test for equal bounds.
RollRangeUncollapsed(entry) ==
    JStr(NumToText(entry.min_roll) \o <<"-">> \o NumToText(entry.max_roll))

\* entry.min_roll === entry.max_roll ? entry.min_roll : `${min}-${max}`
RollRange(entry) ==
    IF entry.min_roll = entry.max_roll THEN JNum(entry.min_roll)
    ELSE JStr(NumToText(entry.min_roll) \o <<"-">> \o NumToText(entry.max_roll))

\* One tr with the two td cells, in the order they are appended.
Row(entry) ==
    [minRollCell |-> ToStringJS(RollRange(entry)),
     targetCell |-> ToStringJS(entry.target)]

\* entryTableBody.innerHTML = '' and then one appended row per entry.
RebuildRows(old, entries) == [i \in 1..Len(entries) |-> Row(entries[i])]

\* ------------------------------------------------------------------ state
VARIABLES
    revision,          \* which of the two revisions of the script runs
    result,            \* text of the element 'result'
    tableNameOptions,  \* option values of the dropdown 'tableName', in order
    tableNameValue,    \* value of the dropdown: the selected option or ''
    tableJson,         \* value of the field 'tableJson'
    entryTableBody,    \* rows of the element 'entryTableBody'
    entryList,         \* content of the element 'entryList'
    pending,           \* fetches issued and not yet settled
    nextId,            \* the next fetch is the nextId-th of the run
    triggers,          \* user events that started a fetch so far
    lastDone,          \* the fetch settled last, with what it settled to
    writers            \* per element, the handlers that have written it

vars == <<revision, result, tableNameOptions, tableNameValue, tableJson,
          entryTableBody, entryList, pending, nextId, triggers, lastDone,
          writers>>

dom == <<result, tableNameOptions, tableNameValue, tableJson, entryTableBody,
         entryList>>

Revisions == {"app.js", "part_000"}
Elements == {"result", "tableName", "entryTableBody", "entryList"}
Handlers == {"drawFromTable", "formattedDrawFromTable", "addTable",
             "populateTableDropdown", "fetchTableEntries"}

Wrote(h, els) ==
    [e \in Elements |-> IF e \in els THEN writers[e] \cup {h} ELSE writers[e]]

\* fetch('/tables') of populateTableDropdown.
TablesRequest(id) == Request(id, "tables", "GET", TablesPath, NoBody)

\* The DOMContentLoaded listener has run: the handlers are installed and
\* the first populateTableDropdown() is in flight.
Init ==
    /\ revision \in Revisions
    /\ result = EmptyText
    /\ tableNameOptions = <<>>
    /\ tableNameValue = EmptyText
    /\ tableJson = EmptyText
    /\ entryTableBody = <<>>
    /\ entryList = EmptyText
    /\ pending = {TablesRequest(1)}
    /\ nextId = 2
    /\ triggers = 0
    /\ lastDone = [kind |-> "none", resp |-> NetworkError, late |-> FALSE]
    /\ writers = [e \in Elements |-> {}]


\* ------------------------------------------------------------ user events
\* window.drawFromTable()
drawFromTable ==
    /\ triggers < MaxTriggers
    /\ LET tableName == tableNameValue
       IN pending' = pending \cup
            {Request(nextId, "draw", "GET", DrawPath(tableName), NoBody)}
    /\ nextId' = nextId + 1
    /\ triggers' = triggers + 1
    /\ UNCHANGED <<revision, dom, lastDone, writers>>

\* window.formattedDrawFromTable()
formattedDrawFromTable ==
    /\ triggers < MaxTriggers
    /\ LET tableName == tableNameValue
       IN pending' = pending \cup
            {Request(nextId, "formatted_draw", "GET",
                     FormattedDrawPath(tableName), NoBody)}
    /\ nextId' = nextId + 1
    /\ triggers' = triggers + 1
    /\ UNCHANGED <<revision, dom, lastDone, writers>>

\* The user fills the field 'tableJson' and submits 'addTableForm'; the
\* submit listener calls preventDefault() and addTable().
addTable ==
    /\ triggers < MaxTriggers
    /\ triggers' = triggers + 1
    /\ tableJson' \in TableTexts
    /\ LET tableData == tableJson'
       IN IF AddTableTryThrows(tableData)
          THEN /\ result' = SetInnerText(result, InvalidFormat)
               /\ writers' = Wrote("addTable", {"result"})
               /\ UNCHANGED <<pending, nextId>>
          ELSE /\ pending' = pending \cup
                    {Request(nextId, "addTable", "POST", AddTablePath,
                             AddTableBody(tableData))}
               /\ nextId' = nextId + 1
               /\ UNCHANGED <<result, writers>>
    /\ UNCHANGED <<revision, tableNameOptions, tableNameValue,
                   entryTableBody, entryList, lastDone>>

\* The user selects another option of the dropdown.  app.js listens to the
\* change event with fetchTableEntries; part_000 does not listen.
fetchTableEntries ==
    /\ \E i \in 1..Len(tableNameOptions) :
         /\ tableNameOptions[i] # tableNameValue
         /\ tableNameValue' = tableNameOptions[i]
    /\ IF revision = "app.js"
       THEN /\ triggers < MaxTriggers
            /\ triggers' = triggers + 1
            /\ LET tableName == tableNameValue'
               IN IF tableName # EmptyText
                  THEN /\ pending' = pending \cup
                            {Request(nextId, "table_entries", "GET",
                                     TableEntriesPath(tableName), NoBody)}
                       /\ nextId' = nextId + 1
                  ELSE UNCHANGED <<pending, nextId>>
       ELSE UNCHANGED <<pending, nextId, triggers>>
    /\ UNCHANGED <<revision, result, tableNameOptions, tableJson,
                   entryTableBody, entryList, lastDone, writers>>

\* --------------------------------------------------- settlement of fetches
\* The record of a settlement: the kind of the fetch, the answer, and
\* whether a fetch issued after it had settled before it.
Done(r, resp) ==
    [kind |-> r.kind, resp |-> resp,
     late |-> \E i \in (r.id + 1)..(nextId - 1) : \A p \in pending : p.id # i]

\* Promise chain of drawFromTable.
drawSettle ==
    \E r \in {p \in pending : p.kind = "draw"},
       resp \in Responses("draw") :
      /\ LET text == IF ChainRejected(resp) \/ PropertyReadThrows(resp)
                     THEN ErrorFetchingData
                     ELSE DrawThenText(resp.body.data)
         IN result' = SetInnerText(result, text)
      /\ writers' = Wrote("drawFromTable", {"result"})
      /\ pending' = pending \ {r}
      /\ lastDone' = Done(r, resp)
      /\ UNCHANGED <<revision, tableNameOptions, tableNameValue, tableJson,
                     entryTableBody, entryList, nextId, triggers>>

\* Promise chain of formattedDrawFromTable.
formattedDrawSettle ==
    \E r \in {p \in pending : p.kind = "formatted_draw"},
       resp \in Responses("formatted_draw") :
      /\ LET text == IF ChainRejected(resp) \/ PropertyReadThrows(resp)
                     THEN ErrorFetchingData
                     ELSE FormattedDrawThenText(resp.body.data)
         IN result' = SetInnerText(result, text)
      /\ writers' = Wrote("formattedDrawFromTable", {"result"})
      /\ pending' = pending \ {r}
      /\ lastDone' = Done(r, resp)
      /\ UNCHANGED <<revision, tableNameOptions, tableNameValue, tableJson,
                     entryTableBody, entryList, nextId, triggers>>

\* Promise chain of addTable.  The then-callback writes the message and
\* calls populateTableDropdown(); reading data.message of null throws before
\* anything is written, and the catch-callback takes over.
addTableSettle ==
    \E r \in {p \in pending : p.kind = "addTable"},
       resp \in Responses("addTable") :
      /\ LET branch == IF ChainRejected(resp) \/ PropertyReadThrows(resp)
                       THEN "catch" ELSE "then"
             text == IF branch = "then" THEN AddTableThenText(resp.body.data)
                     ELSE ErrorAddingTable
         IN /\ result' = SetInnerText(result, text)
            /\ IF AddTableRefreshes(branch)
               THEN /\ pending' = (pending \ {r}) \cup {TablesRequest(nextId)}
                    /\ nextId' = nextId + 1
               ELSE /\ pending' = pending \ {r}
                    /\ nextId' = nextId
      /\ writers' = Wrote("addTable", {"result"})
      /\ lastDone' = Done(r, resp)
      /\ UNCHANGED <<revision, tableNameOptions, tableNameValue, tableJson,
                     entryTableBody, entryList, triggers>>

\* Promise chain of populateTableDropdown.  The then-callback empties the
\* dropdown before it reads data.tables, so a JSON body without a list
\* leaves the dropdown empty and ends in the catch-callback.
tablesSettle ==
    \E r \in {p \in pending : p.kind = "tables"},
       resp \in Responses("tables") :
      /\ IF ChainRejected(resp)
         THEN /\ writers' = Wrote("populateTableDropdown", TablesCatchWrites)
              /\ result' = IF "result" \in TablesCatchWrites
                           THEN ErrorFetchingData ELSE result
              /\ UNCHANGED <<tableNameOptions, tableNameValue>>
         ELSE /\ writers' = Wrote("populateTableDropdown",
                                  {"tableName"} \cup TablesCatchWrites)
              /\ IF PropertyReadThrows(resp)
                 THEN tableNameOptions' = <<>>
                 ELSE IF resp.body.data.tables.t = "undefined"
                 THEN tableNameOptions' = <<>>
                 ELSE tableNameOptions' =
                        RebuildOptions(tableNameOptions,
                          TablesOrder(revision, resp.body.data.tables.e))
              /\ tableNameValue' = ValueAfterRebuild(tableNameOptions')
              /\ result' = result
      /\ pending' = pending \ {r}
      /\ lastDone' = Done(r, resp)
      /\ UNCHANGED <<revision, tableJson, entryTableBody, entryList, nextId,
                     triggers>>

\* Promise chain of fetchTableEntries.  As above, the body is emptied
\* before data.entries is read.
tableEntriesSettle ==
    \E r \in {p \in pending : p.kind = "table_entries"},
       resp \in Responses("table_entries") :
      /\ IF ChainRejected(resp)
         THEN /\ entryList' = ErrorFetchingData
              /\ writers' = Wrote("fetchTableEntries", {"entryList"})
              /\ UNCHANGED entryTableBody
         ELSE IF PropertyReadThrows(resp)
                 \/ resp.body.data.entries.t = "undefined"
         THEN /\ entryTableBody' = <<>>
              /\ entryList' = ErrorFetchingData
              /\ writers' = Wrote("fetchTableEntries",
                                  {"entryTableBody", "entryList"})
         ELSE /\ entryTableBody' =
                   RebuildRows(entryTableBody, resp.body.data.entries.e)
              /\ writers' = Wrote("fetchTableEntries", {"entryTableBody"})
              /\ UNCHANGED entryList
      /\ pending' = pending \ {r}
      /\ lastDone' = Done(r, resp)
      /\ UNCHANGED <<revision, result, tableNameOptions, tableNameValue,
                     tableJson, nextId, triggers>>

Next ==
    \/ drawFromTable
    \/ formattedDrawFromTable
    \/ addTable
    \/ fetchTableEntries
    \/ drawSettle
    \/ formattedDrawSettle
    \/ addTableSettle
    \/ tablesSettle
    \/ tableEntriesSettle

Spec == Init /\ [][Next]_vars

TypeOK ==
    /\ revision \in Revisions
    /\ tableNameValue \in Names \cup {EmptyText}
    /\ tableJson \in TableTexts \cup {EmptyText}
    /\ triggers \in 0..MaxTriggers
    /\ \A r \in pending : r.id < nextId


\* ------------------------------------------------------------ vocabulary
\* This step settled a fetch of the given kind.
Settles(kind) == \E r \in pending \ pending' : r.kind = kind

\* The fetches this step issued.
Issued == pending' \ pending

\* An answer with a success status whose body is a JSON object.
Successful(resp) ==
    IF resp.t # "http" THEN FALSE
    ELSE IF ~resp.ok \/ resp.body.t # "json" THEN FALSE
    ELSE resp.body.data.t = "object"

\* An answer with an error status.
HttpFailure(resp) == IF resp.t # "http" THEN FALSE ELSE ~resp.ok

ResultKinds == {"draw", "formatted_draw", "addTable"}

\* Number of occurrences of x in the sequence s.
Count(s, x) == Cardinality({i \in 1..Len(s) : s[i] = x})

\* JSON.parse on texts made of digits, quotes and brackets: a number, a
\* string, or an array of at most one value; anything else is a SyntaxError.
IsDigit(c) == \E d \in 1..10 : Digit[d] = c

DigitValue(c) == (CHOOSE d \in 1..10 : Digit[d] = c) - 1

RECURSIVE DigitsValue(_)
DigitsValue(s) ==
    IF s = <<>> THEN 0
    ELSE 10 * DigitsValue(SubSeq(s, 1, Len(s) - 1)) + DigitValue(s[Len(s)])

SyntaxError == [ok |-> FALSE, value |-> Undefined]

RECURSIVE JSONParse(_)
JSONParse(s) ==
    IF s = <<>> THEN SyntaxError
    ELSE IF \A i \in 1..Len(s) : IsDigit(s[i])
         THEN [ok |-> TRUE, value |-> JNum(DigitsValue(s))]
    ELSE IF Len(s) < 2 THEN SyntaxError
    ELSE LET inner == SubSeq(s, 2, Len(s) - 1)
         IN IF s[1] = "\"" /\ s[Len(s)] = "\""
            THEN IF \E i \in 1..Len(inner) : inner[i] \in {"\"", "\\"}
                 THEN SyntaxError
                 ELSE [ok |-> TRUE, value |-> JStr(inner)]
            ELSE IF s[1] = "[" /\ s[Len(s)] = "]"
            THEN IF inner = <<>> THEN [ok |-> TRUE, value |-> JArr(<<>>)]
                 ELSE IF JSONParse(inner).ok
                      THEN [ok |-> TRUE, value |-> JArr(<<JSONParse(inner).value>>)]
                      ELSE SyntaxError
            ELSE SyntaxError

\* ----------------------------------------------------------------- claims
\* C1: a draw trigger issues exactly one GET to /draw/T, T the dropdown's
\* value at the trigger, and a successful answer {result: V} to it makes the
\* result text exactly 'Result: V'; the formatted draw does the same with
\* /formatted_draw/T and 'Formatted Result: V'.
C1_DrawContract ==
    [][/\ drawFromTable =>
            \E r \in Issued :
              /\ Issued = {r}
              /\ r.method = "GET"
              /\ r.path = <<"/draw/">> \o tableNameValue
              /\ r.body = NoBody
       /\ formattedDrawFromTable =>
            \E r \in Issued :
              /\ Issued = {r}
              /\ r.method = "GET"
              /\ r.path = <<"/formatted_draw/">> \o tableNameValue
              /\ r.body = NoBody
       /\ (Settles("draw") /\ Successful(lastDone'.resp)) =>
            (lastDone'.resp.body.data.result.t # "undefined" =>
               result' = <<"Result: ">>
                           \o ToStringJS(lastDone'.resp.body.data.result))
       /\ (Settles("formatted_draw") /\ Successful(lastDone'.resp)) =>
            (lastDone'.resp.body.data.result.t # "undefined" =>
               result' = <<"Formatted Result: ">>
                           \o ToStringJS(lastDone'.resp.body.data.result))
      ]_vars

\* A draw was answered {result: 12} and shows 'Result: 12' while a formatted
\* draw issued for another selection than the present one is still in flight.
C1_Witness ==
    /\ lastDone.kind = "draw"
    /\ Successful(lastDone.resp)
    /\ result = <<"Result: ", "1", "2">>
    /\ \E r \in pending :
         /\ r.kind = "formatted_draw"
         /\ r.path # FormattedDrawPath(tableNameValue)

\* Some element of the page shows the text.
PageShows(text) == result = text \/ entryList = text

\* C2: whichever trigger's request fails on the network, its handler writes
\* its fixed error string to the page.
C2_NetworkFailureShown ==
    [][/\ (Settles("draw") /\ lastDone'.resp = NetworkError) =>
            result' = <<"Error fetching data">>
       /\ (Settles("formatted_draw") /\ lastDone'.resp = NetworkError) =>
            result' = <<"Error fetching data">>
       /\ (Settles("addTable") /\ lastDone'.resp = NetworkError) =>
            result' = <<"Error adding table">>
       /\ (Settles("table_entries") /\ lastDone'.resp = NetworkError) =>
            entryList' = <<"Error fetching data">>
       /\ (Settles("tables") /\ lastDone'.resp = NetworkError) =>
            PageShows(<<"Error fetching data">>)'
      ]_vars

\* The text the chain of a result-writing fetch assigns for an answer.
ExpectedResultText(done) ==
    IF ChainRejected(done.resp) \/ PropertyReadThrows(done.resp)
    THEN (IF done.kind = "addTable" THEN <<"Error adding table">>
          ELSE <<"Error fetching data">>)
    ELSE CASE done.kind = "draw" ->
                <<"Result: ">> \o ToStringJS(done.resp.body.data.result)
           [] done.kind = "formatted_draw" ->
                <<"Formatted Result: ">> \o ToStringJS(done.resp.body.data.result)
           [] OTHER -> ToStringJS(done.resp.body.data.message)

\* C3: draws, formatted draws and table creations in flight together settle
\* in any order, and the result element holds the text of the one that
\* settled last, whichever was issued first.
C3_LastResponseWins ==
    /\ [](lastDone.kind \in ResultKinds => result = ExpectedResultText(lastDone))
    /\ [][result' # result =>
            \E kind \in ResultKinds : Settles(kind)]_vars

\* A draw and one other writer of the result element were triggered, in
\* this order; the draw settled after the other and the page shows its text.
C3_Witness ==
    /\ pending = {}
    /\ nextId = 4
    /\ triggers = 2
    /\ Cardinality(writers["result"]) = 2
    /\ lastDone.kind = "draw"
    /\ lastDone.late
    /\ result = ExpectedResultText(lastDone)

\* C4: after a successful answer {tables: L} to GET /tables the dropdown
\* holds exactly one option per element of L and nothing else.
C4_DropdownReplaced ==
    (lastDone.kind = "tables" /\ Successful(lastDone.resp)) =>
      (lastDone.resp.body.data.tables.t = "array" =>
         LET L == lastDone.resp.body.data.tables.e
         IN /\ Len(tableNameOptions) = Len(L)
            /\ \A n \in Names : Count(tableNameOptions, n) = Count(L, n))

\* The list was fetched at page load and again after a table creation; the
\* fetch that settled last was answered with two names, which the dropdown
\* now holds.
C4_Witness ==
    /\ lastDone.kind = "tables"
    /\ triggers = 1
    /\ nextId = 4
    /\ pending = {}
    /\ Successful(lastDone.resp)
    /\ lastDone.resp.body.data.tables = JArr(<<<<"b">>, <<"a", "b">>>>)
    /\ Len(tableNameOptions) = 2

C6_MalformedRejected ==
    [][(addTable /\ ~JSONParse(tableJson').ok) =>
         (result' = <<"Invalid format">> /\ Issued = {})]_vars

\* C7: submitting well-formed JSON issues exactly one POST to /addTable
\* whose body is {"table": P}, P the parsed value of the text.
C7_ParsedBody ==
    [][(addTable /\ JSONParse(tableJson').ok) =>
         \E r \in Issued :
           /\ Issued = {r}
           /\ r.method = "POST"
           /\ r.path = <<"/addTable">>
           /\ r.body = JSONStringify(TableObject(JSONParse(tableJson').value))
      ]_vars

\* The text of the roll cell of an entry.
ExpectedRoll(e) ==
    IF e.min_roll = e.max_roll THEN NumToText(e.min_roll)
    ELSE NumToText(e.min_roll) \o <<"-">> \o NumToText(e.max_roll)

\* C8: after a successful answer {entries: E} to GET /table_entries/T the
\* table body holds one row per element of E, in order, the roll cell
\* showing min_roll alone when it equals max_roll and 'min_roll-max_roll'
\* otherwise, the target cell showing the target.
C8_EntriesRendered ==
    (lastDone.kind = "table_entries" /\ Successful(lastDone.resp)) =>
      (lastDone.resp.body.data.entries.t = "array" =>
         LET E == lastDone.resp.body.data.entries.e
         IN /\ Len(entryTableBody) = Len(E)
            /\ \A i \in 1..Len(E) :
                 /\ entryTableBody[i].minRollCell = ExpectedRoll(E[i])
                 /\ entryTableBody[i].targetCell = ToStringJS(E[i].target))

\* The answer listed the ranges 2-15 and 3, and the body shows them in that
\* order.
C8_Witness ==
    /\ lastDone.kind = "table_entries"
    /\ Successful(lastDone.resp)
    /\ lastDone.resp.body.data.entries.t = "array"
    /\ Len(entryTableBody) = 2
    /\ entryTableBody[1].minRollCell = <<"2", "-", "1", "5">>
    /\ entryTableBody[2].minRollCell = <<"3">>

\* C9: a draw, formatted draw or table creation answered with an error
\* status shows the handler's fixed error string, as a network failure does.
C9_HttpFailureShown ==
    [][/\ (Settles("draw") /\ HttpFailure(lastDone'.resp)) =>
            result' = <<"Error fetching data">>
       /\ (Settles("formatted_draw") /\ HttpFailure(lastDone'.resp)) =>
            result' = <<"Error fetching data">>
       /\ (Settles("addTable") /\ HttpFailure(lastDone'.resp)) =>
            result' = <<"Error adding table">>
      ]_vars

\* C10: no element is written by two different handlers.
C10_OneWriterPerElement ==
    \A e \in Elements : Cardinality(writers[e]) <= 1

\* C10, amended: the dropdown is written by populateTableDropdown only, the
\* entry table body and the entry list by fetchTableEntries only; the result
\* element is shared by drawFromTable, formattedDrawFromTable and addTable.
C10_WritersPerElement ==
    /\ writers["tableName"] \subseteq {"populateTableDropdown"}
    /\ writers["entryTableBody"] \subseteq {"fetchTableEntries"}
    /\ writers["entryList"] \subseteq {"fetchTableEntries"}
    /\ writers["result"] \subseteq
         {"drawFromTable", "formattedDrawFromTable", "addTable"}

\* Two handlers have written the result element and the list was populated.
C10_Witness ==
    /\ Cardinality(writers["result"]) = 2
    /\ writers["tableName"] = {"populateTableDropdown"}

====
